---- MODULE Spec2Model ----
(***************************************************************************)
(* ISS spotter: nextISSTimesForMyLocation chains three remote lookups     *)
(* (public IP, coordinates of the IP, ISS fly-over times).  The repository *)
(* holds two implementations of the chain: the callback one (iss.js) and   *)
(* the promise one (the request-promise-native file).  Both are modelled;  *)
(* the variable impl says which one a run executes.                        *)
(***************************************************************************)
EXTENDS Integers, Sequences, FiniteSets, TLC

VARIABLES impl, pc, invoked, url, resp, sOut, sErr, sVal, calls, error, data

vars == <<impl, pc, invoked, url, resp, sOut, sErr, sVal, calls, error, data>>

Stages == 1..3

(***************************************************************************)
(* JavaScript values.  Every value is a record of one shape: k is the JS   *)
(* type, s the text of a string / number / boolean, l the elements of an   *)
(* array of pass windows, o the <<latitude, longitude>> of a location.     *)
(***************************************************************************)
Null == [k |-> "null", s |-> "", l |-> <<>>, o |-> <<>>]

Undefined == [k |-> "undefined", s |-> "", l |-> <<>>, o |-> <<>>]

StrV(s) == [k |-> "string", s |-> s, l |-> <<>>, o |-> <<>>]

NumV(s) == [k |-> "number", s |-> s, l |-> <<>>, o |-> <<>>]

BoolV(s) == [k |-> "boolean", s |-> s, l |-> <<>>, o |-> <<>>]

ListV(l) == [k |-> "array", s |-> "", l |-> l, o |-> <<>>]

\* the object literal { latitude, longitude }
GeoLocation(latitude, longitude) ==
  [k |-> "object", s |-> "", l |-> <<>>, o |-> <<latitude, longitude>>]

\* what a template literal `${v}` inserts for a value
String(v) ==
  CASE v.k = "undefined" -> "undefined"
    [] v.k = "null" -> "null"
    [] v.k = "array" -> "[object Object]"
    [] v.k = "object" -> "[object Object]"
    [] OTHER -> v.s

\* the truth value of v in `!v`
Truthy(v) ==
  CASE v.k = "undefined" -> FALSE
    [] v.k = "null" -> FALSE
    [] v.k = "boolean" -> v.s = "true"
    [] v.k = "string" -> v.s # ""
    [] v.k = "number" -> v.s # "0"
    [] OTHER -> TRUE

(***************************************************************************)
(* Response bodies the three services can send, and JSON.parse on them.    *)
(***************************************************************************)
BodyIp == "{\"ip\":\"162.245.144.188\"}"

BodyGeoOk == "{\"success\":true,\"latitude\":38.91,\"longitude\":-77.04}"

BodyGeoFail == "{\"success\":false,\"message\":\"invalid ip\"}"

BodyPasses ==
  "{\"response\":[{\"risetime\":134564234,\"duration\":600},{\"risetime\":134570000,\"duration\":300}]}"

BodyEmptyObject == "{}"

BodyInvalidCoordinates == "invalid coordinates"

BodyHtml == "<html>Service Unavailable</html>"

Bodies ==
  {BodyIp, BodyGeoOk, BodyGeoFail, BodyPasses, BodyEmptyObject,
   BodyInvalidCoordinates, BodyHtml}

Statuses == {200, 404}

StatusText(status) == IF status = 200 THEN "200" ELSE "404"

EmptyObject ==
  [ip |-> Undefined, success |-> Undefined, message |-> Undefined,
   latitude |-> Undefined, longitude |-> Undefined, response |-> Undefined]

\* JSON.parse(body): ok = FALSE when it throws a SyntaxError
JSONparse(body) ==
  CASE body = BodyIp ->
         [ok |-> TRUE, obj |-> [EmptyObject EXCEPT !.ip = StrV("162.245.144.188")]]
    [] body = BodyGeoOk ->
         [ok |-> TRUE,
          obj |-> [EmptyObject EXCEPT !.success = BoolV("true"),
                                      !.latitude = NumV("38.91"),
                                      !.longitude = NumV("-77.04")]]
    [] body = BodyGeoFail ->
         [ok |-> TRUE,
          obj |-> [EmptyObject EXCEPT !.success = BoolV("false"),
                                      !.message = StrV("invalid ip")]]
    [] body = BodyPasses ->
         [ok |-> TRUE,
          obj |-> [EmptyObject EXCEPT !.response =
                     ListV(<<[risetime |-> 134564234, duration |-> 600],
                             [risetime |-> 134570000, duration |-> 300]>>)]]
    [] body = BodyEmptyObject -> [ok |-> TRUE, obj |-> EmptyObject]
    [] OTHER -> [ok |-> FALSE, obj |-> EmptyObject]

(***************************************************************************)
(* Errors: the constructor name and the pieces of the message.             *)
(***************************************************************************)
NoError == [name |-> "null", msg |-> <<>>]

JSError(msg) == [name |-> "Error", msg |-> msg]

\* thrown by JSON.parse on a body that is not JSON
SyntaxError == [name |-> "SyntaxError", msg |-> <<"Unexpected token in JSON at position 0">>]

\* the transport error the request library reports for a host
TransportError(host) == JSError(<<"getaddrinfo ENOTFOUND ", host>>)

Host(stage) ==
  CASE stage = 1 -> "api.ipify.org"
    [] stage = 2 -> "ipwho.is"
    [] OTHER -> "iss-flyover.herokuapp.com"

\* what the request library hands to its callback
NoResponse == [recv |-> FALSE, err |-> NoError, status |-> 0, body |-> ""]

Responses(stage) ==
  {[recv |-> TRUE, err |-> TransportError(Host(stage)), status |-> 0, body |-> ""]}
  \cup {[recv |-> TRUE, err |-> NoError, status |-> st, body |-> b] :
          st \in Statuses, b \in Bodies}

\* the result a stage reports: st is "ok", "err" (reported) or "threw"
Result(st, err, val) == [st |-> st, err |-> err, val |-> val]

(***************************************************************************)
(* iss.js: the callback implementation                                     *)
(***************************************************************************)
MyIPUrl == <<"https://api.ipify.org?format=json">>

\* the request callback of fetchMyIP
fetchMyIP(r) ==
  IF r.err # NoError THEN Result("err", r.err, Null)
  ELSE IF r.status # 200
    THEN Result("err",
                JSError(<<"Status Code ", StatusText(r.status),
                          " when fetching IP. Response ", r.body>>),
                Null)
  ELSE IF ~JSONparse(r.body).ok THEN Result("threw", SyntaxError, Null)
  ELSE Result("ok", NoError, JSONparse(r.body).obj.ip)

CoordsUrl(ip) == <<"http://ipwho.is/", String(ip)>>

\* the request callback of fetchCoordsByIp
fetchCoordsByIp(r) ==
  IF r.err # NoError THEN Result("err", r.err, Null)
  ELSE IF ~JSONparse(r.body).ok THEN Result("threw", SyntaxError, Null)
  ELSE LET parsedBody == JSONparse(r.body).obj IN
    IF ~Truthy(parsedBody.success)
      THEN Result("err",
                  JSError(<<"It didn't work! Error: Success status was ",
                            String(parsedBody.success),
                            ". Server message says: ", String(parsedBody.message),
                            " when fetching for IP ", String(parsedBody.ip)>>),
                  Null)
      ELSE Result("ok", NoError,
                  GeoLocation(parsedBody.latitude, parsedBody.longitude))

\* a plausible slip: the two coordinates in the wrong query parameters
FlyOverUrlSwapped(latitude, longitude) ==
  <<"https://iss-flyover.herokuapp.com/json/?lat=", String(longitude),
    "&lon=", String(latitude)>>

FlyOverUrl(latitude, longitude) ==
  <<"https://iss-flyover.herokuapp.com/json/?lat=", String(latitude),
    "&lon=", String(longitude)>>

\* the request callback of fetchISSFlyOverTimes
fetchISSFlyOverTimes(r) ==
  IF r.err # NoError THEN Result("err", r.err, Null)
  ELSE IF r.body = BodyInvalidCoordinates \/ r.status # 200
    THEN Result("err",
                JSError(<<"You have entered invalid coordinates ", r.body,
                          ", with status code ", StatusText(r.status)>>),
                Null)
  ELSE IF ~JSONparse(r.body).ok THEN Result("threw", SyntaxError, Null)
  ELSE Result("ok", NoError, JSONparse(r.body).obj.response)

\* a plausible slip: the error of a stage is not looked at
ContinuesUnchecked(res) == res.st \in {"ok", "err"}

\* `if (error) return callback(error, null)`: the chain goes on without error
Continues(res) == res.st = "ok"

\* a plausible slip: the orchestrator reports an error of its own
CallbackErrorWrapped(e) ==
  [error |-> JSError(<<"Could not get the fly over times: ">> \o e.msg), data |-> Null]

\* callback(error, null) in the orchestrator
CallbackError(e) == [error |-> e, data |-> Null]

\* callback(null, flyOver) in the orchestrator
CallbackData(v) == [error |-> NoError, data |-> v]

Init ==
  /\ impl = "none"
  /\ pc = "init"
  /\ invoked = [k \in Stages |-> 0]
  /\ url = [k \in Stages |-> <<>>]
  /\ resp = [k \in Stages |-> NoResponse]
  /\ sOut = [k \in Stages |-> "none"]
  /\ sErr = [k \in Stages |-> NoError]
  /\ sVal = [k \in Stages |-> Null]
  /\ calls = 0
  /\ error = NoError
  /\ data = Null

\* nextISSTimesForMyLocation(callback) is called: fetchMyIP issues its request
nextISSTimesForMyLocation ==
  /\ pc = "init"
  /\ impl' = "callback"
  /\ pc' = "fetchMyIP"
  /\ invoked' = [invoked EXCEPT ![1] = @ + 1]
  /\ url' = [url EXCEPT ![1] = MyIPUrl]
  /\ sOut' = [sOut EXCEPT ![1] = "pending"]
  /\ UNCHANGED <<resp, sErr, sVal, calls, error, data>>

\* what every response handler of the callback chain does with the result
\* res of stage k: an uncaught throw ends the process, an error goes to the
\* caller's callback
Settle(k, r, res) ==
  /\ resp' = [resp EXCEPT ![k] = r]
  /\ sErr' = [sErr EXCEPT ![k] = res.err]
  /\ sVal' = [sVal EXCEPT ![k] = res.val]
  /\ UNCHANGED impl

Crash(k, res) ==
  /\ pc' = "crashed"
  /\ sOut' = [sOut EXCEPT ![k] = res.st]
  /\ UNCHANGED <<invoked, url, calls, error, data>>

Deliver(k, res, out) ==
  /\ pc' = "done"
  /\ sOut' = [sOut EXCEPT ![k] = res.st]
  /\ calls' = calls + 1
  /\ error' = out.error
  /\ data' = out.data
  /\ UNCHANGED <<invoked, url>>

Invoke(k, res, nextPc, u) ==
  /\ pc' = nextPc
  /\ sOut' = [sOut EXCEPT ![k] = res.st, ![k + 1] = "pending"]
  /\ invoked' = [invoked EXCEPT ![k + 1] = @ + 1]
  /\ url' = [url EXCEPT ![k + 1] = u]
  /\ UNCHANGED <<calls, error, data>>

\* the response to fetchMyIP's request arrives
OnMyIP ==
  /\ impl = "callback" /\ pc = "fetchMyIP"
  /\ \E r \in Responses(1) :
       LET res == fetchMyIP(r) IN
       /\ Settle(1, r, res)
       /\ IF res.st = "threw" THEN Crash(1, res)
          ELSE IF Continues(res)
            THEN Invoke(1, res, "fetchCoordsByIp", CoordsUrl(res.val))
            ELSE Deliver(1, res, CallbackError(res.err))

\* the response to fetchCoordsByIp's request arrives
OnCoords ==
  /\ impl = "callback" /\ pc = "fetchCoordsByIp"
  /\ \E r \in Responses(2) :
       LET res == fetchCoordsByIp(r) IN
       /\ Settle(2, r, res)
       /\ IF res.st = "threw" THEN Crash(2, res)
          ELSE IF Continues(res)
            THEN Invoke(2, res, "fetchISSFlyOverTimes",
                        FlyOverUrl(res.val.o[1], res.val.o[2]))
            ELSE Deliver(2, res, CallbackError(res.err))

\* the response to fetchISSFlyOverTimes' request arrives
OnFlyOver ==
  /\ impl = "callback" /\ pc = "fetchISSFlyOverTimes"
  /\ \E r \in Responses(3) :
       LET res == fetchISSFlyOverTimes(r) IN
       /\ Settle(3, r, res)
       /\ IF res.st = "threw" THEN Crash(3, res)
          ELSE IF Continues(res)
            THEN Deliver(3, res, CallbackData(res.val))
            ELSE Deliver(3, res, CallbackError(res.err))

(***************************************************************************)
(* The promise implementation (request-promise-native)                     *)
(***************************************************************************)
Is2xx(status) == status >= 200 /\ status < 300

\* request(url) of request-promise-native: the promise rejects on a transport
\* error and on a status outside 2xx, and is fulfilled with the body otherwise
RequestPromise(r) ==
  IF r.err # NoError
    THEN Result("err", [name |-> "RequestError", msg |-> <<"Error: ">> \o r.err.msg], Null)
  ELSE IF ~Is2xx(r.status)
    THEN Result("err",
                [name |-> "StatusCodeError",
                 msg |-> <<StatusText(r.status), " - ", r.body>>],
                Null)
  ELSE Result("ok", NoError, StrV(r.body))

\* fetchCoordsByIP(body): throws when body is not JSON, else requests the url
PromiseFetchCoordsByIP(body) ==
  IF ~JSONparse(body).ok THEN [threw |-> TRUE, url |-> <<>>]
  ELSE [threw |-> FALSE, url |-> CoordsUrl(JSONparse(body).obj.ip)]

\* fetchISSFlyOverTimes(body): throws when body is not JSON, else requests
PromiseFetchISSFlyOverTimes(body) ==
  IF ~JSONparse(body).ok THEN [threw |-> TRUE, url |-> <<>>]
  ELSE [threw |-> FALSE,
        url |-> FlyOverUrl(JSONparse(body).obj.latitude,
                           JSONparse(body).obj.longitude)]

\* the last .then of the chain: the promise is fulfilled with the response
\* field, or rejected with the SyntaxError of JSON.parse
PromiseThen(body) ==
  IF ~JSONparse(body).ok THEN [error |-> SyntaxError, data |-> Null]
  ELSE [error |-> NoError, data |-> JSONparse(body).obj.response]

\* a rejection skips the remaining .then handlers and settles the promise
Rejected(e) == [error |-> e, data |-> Null]

\* nextISSTimesForMyLocation() is called: fetchMyIP issues its request
PromiseNextISSTimesForMyLocation ==
  /\ pc = "init"
  /\ impl' = "promise"
  /\ pc' = "fetchMyIP"
  /\ invoked' = [invoked EXCEPT ![1] = @ + 1]
  /\ url' = [url EXCEPT ![1] = MyIPUrl]
  /\ sOut' = [sOut EXCEPT ![1] = "pending"]
  /\ UNCHANGED <<resp, sErr, sVal, calls, error, data>>

\* the promise settles with out
PromiseSettle(out) ==
  /\ pc' = "done"
  /\ calls' = calls + 1
  /\ error' = out.error
  /\ data' = out.data

\* stage k is fulfilled with a body and the next .then handler f runs on it:
\* it throws (the chain is rejected) or issues the request of stage k + 1
PromiseChain(k, r, res, f, nextPc) ==
  /\ invoked' = [invoked EXCEPT ![k + 1] = @ + 1]
  /\ url' = [url EXCEPT ![k + 1] = f.url]
  /\ sVal' = [sVal EXCEPT ![k] = res.val]
  /\ IF f.threw
       THEN /\ sOut' = [sOut EXCEPT ![k] = res.st, ![k + 1] = "threw"]
            /\ sErr' = [sErr EXCEPT ![k + 1] = SyntaxError]
            /\ PromiseSettle(Rejected(SyntaxError))
       ELSE /\ sOut' = [sOut EXCEPT ![k] = res.st, ![k + 1] = "pending"]
            /\ pc' = nextPc
            /\ UNCHANGED <<sErr, calls, error, data>>

\* the request of stage k is rejected: so is the whole chain
PromiseFail(k, res) ==
  /\ sOut' = [sOut EXCEPT ![k] = "err"]
  /\ sErr' = [sErr EXCEPT ![k] = res.err]
  /\ PromiseSettle(Rejected(res.err))
  /\ UNCHANGED <<invoked, url, sVal>>

\* the request of fetchMyIP settles; .then(fetchCoordsByIP)
PromiseOnMyIP ==
  /\ impl = "promise" /\ pc = "fetchMyIP"
  /\ \E r \in Responses(1) :
       LET res == RequestPromise(r) IN
       /\ resp' = [resp EXCEPT ![1] = r]
       /\ UNCHANGED impl
       /\ IF Continues(res)
            THEN PromiseChain(1, r, res, PromiseFetchCoordsByIP(r.body),
                              "fetchCoordsByIp")
            ELSE PromiseFail(1, res)

\* the request of fetchCoordsByIP settles; .then(fetchISSFlyOverTimes)
PromiseOnCoords ==
  /\ impl = "promise" /\ pc = "fetchCoordsByIp"
  /\ \E r \in Responses(2) :
       LET res == RequestPromise(r) IN
       /\ resp' = [resp EXCEPT ![2] = r]
       /\ UNCHANGED impl
       /\ IF Continues(res)
            THEN PromiseChain(2, r, res, PromiseFetchISSFlyOverTimes(r.body),
                              "fetchISSFlyOverTimes")
            ELSE PromiseFail(2, res)

\* the request of fetchISSFlyOverTimes settles; the last .then
PromiseOnFlyOver ==
  /\ impl = "promise" /\ pc = "fetchISSFlyOverTimes"
  /\ \E r \in Responses(3) :
       LET res == RequestPromise(r) IN
       /\ resp' = [resp EXCEPT ![3] = r]
       /\ UNCHANGED impl
       /\ IF Continues(res)
            THEN /\ sOut' = [sOut EXCEPT ![3] = res.st]
                 /\ sVal' = [sVal EXCEPT ![3] = res.val]
                 /\ PromiseSettle(PromiseThen(r.body))
                 /\ UNCHANGED <<invoked, url, sErr>>
            ELSE PromiseFail(3, res)

Next ==
  \/ nextISSTimesForMyLocation
  \/ OnMyIP
  \/ OnCoords
  \/ OnFlyOver
  \/ PromiseNextISSTimesForMyLocation
  \/ PromiseOnMyIP
  \/ PromiseOnCoords
  \/ PromiseOnFlyOver

Spec == Init /\ [][Next]_vars

(***************************************************************************)
(* Vocabulary of the properties                                            *)
(***************************************************************************)
\* the run has begun and no request is outstanding
Stopped == impl # "none" /\ \A k \in Stages : sOut[k] # "pending"

\* the caller got an outcome: the callback was called / the promise settled
Delivered == calls > 0

Succeeded == calls = 1 /\ error = NoError /\ data.k = "array"

Failed == calls = 1 /\ error # NoError

\* the text of error e mentions the text m
Mentions(e, m) ==
  \E i \in 1..Len(e.msg) :
    \/ e.msg[i] = m
    \/ e.msg[i] \in Bodies /\ JSONparse(e.msg[i]).obj.message = StrV(m)

\* a NetworkError: the transport error of the request, possibly as the
\* RequestError of the promise library
IsNetworkError(e, stage) ==
  \/ e = TransportError(Host(stage))
  \/ e.name = "RequestError" /\ Mentions(e, Host(stage))

\* a ResponseError: an error saying that the status was not the expected one
IsResponseError(e) ==
  \/ e.name = "Error" /\ Len(e.msg) > 0 /\ e.msg[1] = "Status Code "
  \/ e.name = "StatusCodeError"

\* a ValidationError: an error reporting invalid coordinates
IsValidationError(e) ==
  \E i \in 1..Len(e.msg) :
    e.msg[i] \in {"You have entered invalid coordinates ", BodyInvalidCoordinates}

\* the three remote calls, by what the service answered
AddressCallSucceeded ==
  /\ resp[1].recv /\ resp[1].err = NoError /\ resp[1].status = 200
  /\ JSONparse(resp[1].body).ok
  /\ JSONparse(resp[1].body).obj.ip.k = "string"

AddressCallFailed ==
  /\ resp[1].recv
  /\ \/ resp[1].err # NoError
     \/ resp[1].status # 200
     \/ ~JSONparse(resp[1].body).ok
     \/ JSONparse(resp[1].body).obj.ip.k # "string"

GeoCallSucceeded ==
  /\ resp[2].recv /\ resp[2].err = NoError /\ resp[2].status = 200
  /\ JSONparse(resp[2].body).ok
  /\ Truthy(JSONparse(resp[2].body).obj.success)
  /\ JSONparse(resp[2].body).obj.latitude.k = "number"
  /\ JSONparse(resp[2].body).obj.longitude.k = "number"

\* the geolocation service answered success = false with the message m
GeoAnsweredFailure(m) ==
  /\ resp[2].recv /\ resp[2].err = NoError
  /\ JSONparse(resp[2].body).ok
  /\ JSONparse(resp[2].body).obj.success = BoolV("false")
  /\ JSONparse(resp[2].body).obj.message = StrV(m)

GeoCallFailed ==
  /\ resp[2].recv
  /\ \/ resp[2].err # NoError
     \/ ~JSONparse(resp[2].body).ok
     \/ GeoAnsweredFailure("invalid ip")

PassCallSucceeded ==
  /\ resp[3].recv /\ resp[3].err = NoError /\ resp[3].status = 200
  /\ JSONparse(resp[3].body).ok
  /\ JSONparse(resp[3].body).obj.response.k = "array"

PassCallFailed ==
  /\ resp[3].recv
  /\ \/ resp[3].err # NoError
     \/ resp[3].status # 200
     \/ ~JSONparse(resp[3].body).ok
     \/ JSONparse(resp[3].body).obj.response.k # "array"

(***************************************************************************)
(* The properties                                                          *)
(***************************************************************************)

\* C1: when a run has stopped, it ended in success (error null, the pass
\* list delivered) iff the address lookup, the geo lookup and the pass
\* prediction all succeeded, and it ended in failure if one of them failed.
C1_SuccessIffAllThreeSucceed ==
  Stopped =>
    /\ (AddressCallSucceeded /\ GeoCallSucceeded /\ PassCallSucceeded) => Succeeded
    /\ (AddressCallFailed \/ GeoCallFailed \/ PassCallFailed) => Failed

\* C2: a stage is invoked only after every earlier stage completed
\* successfully; after a failed stage no later stage is ever invoked.
C2_StagesInOrder ==
  /\ \A k \in 2..3 : invoked[k] > 0 => sOut[k - 1] = "ok"
  /\ \A k \in 1..2 :
       sOut[k] \in {"err", "threw"} => \A j \in (k + 1)..3 : invoked[j] = 0

C2_Witness ==
  /\ sOut[1] = "ok" /\ sOut[2] = "err" /\ invoked[3] = 0 /\ Failed

\* C3: when the geolocation service answers success = false with a message,
\* fetchISSFlyOverTimes is not invoked and the run fails with an error whose
\* text contains the message, in the callback and the promise implementation.
C3_GeoFailureIsServiceError ==
  GeoAnsweredFailure("invalid ip") =>
    /\ invoked[3] = 0
    /\ Stopped => Failed /\ Mentions(error, "invalid ip")

\* C4: when the first two stages succeeded and the body of the pass
\* prediction response is the invalid-coordinates marker, the run fails with
\* a ValidationError and delivers no pass list, whatever the status code.
C4_MarkerIsValidationError ==
  ( /\ sOut[1] = "ok" /\ sOut[2] = "ok"
    /\ AddressCallSucceeded /\ GeoCallSucceeded
    /\ resp[3].recv /\ resp[3].err = NoError
    /\ resp[3].body = BodyInvalidCoordinates )
  => (Failed /\ IsValidationError(error) /\ data = Null)

\* C5: the caller's callback is invoked at most once, and then either with
\* a null error and the pass list, or with an error and null data.
C5_OneOutcomeOnly ==
  impl = "callback" =>
    /\ calls <= 1
    /\ calls = 1 =>
         \/ error = NoError /\ data.k = "array"
         \/ error # NoError /\ data = Null

\* C6: when a stage fails, the caller receives the very error of that
\* stage, once, without data, and the stage was not tried again.
C6_ErrorSurfacedUnchanged ==
  \A k \in Stages :
    (sOut[k] \in {"err", "threw"} /\ Delivered) =>
      /\ calls = 1
      /\ error = sErr[k]
      /\ error # NoError
      /\ data = Null
      /\ invoked[k] = 1

C6_Witness ==
  /\ sOut[3] = "err" /\ calls = 1 /\ IsNetworkError(error, 3)

\* C7: in a fully successful run the geo lookup is requested for the address
\* of the address response, the pass prediction for the latitude and
\* longitude of the geo response, and the output is the response field of
\* the pass prediction body.
C7_ValuesPassedForward ==
  (calls = 1 /\ error = NoError) =>
    /\ url[2] = <<"http://ipwho.is/", String(JSONparse(resp[1].body).obj.ip)>>
    /\ url[3] = <<"https://iss-flyover.herokuapp.com/json/?lat=",
                  String(JSONparse(resp[2].body).obj.latitude),
                  "&lon=",
                  String(JSONparse(resp[2].body).obj.longitude)>>
    /\ data = JSONparse(resp[3].body).obj.response

C7_Witness ==
  /\ Succeeded
  /\ url[2] = <<"http://ipwho.is/", "162.245.144.188">>
  /\ url[3] = <<"https://iss-flyover.herokuapp.com/json/?lat=", "38.91",
                "&lon=", "-77.04">>
  /\ data.l = <<[risetime |-> 134564234, duration |-> 600],
                [risetime |-> 134570000, duration |-> 300]>>

\* C8: fetchMyIP reports every response through its callback: the address
\* on a well-formed 200 response, the NetworkError on a transport failure,
\* a ResponseError on another status and on a malformed 200 payload.
C8_FetchMyIPReportsEveryResponse ==
  (impl = "callback" /\ resp[1].recv) =>
    /\ sOut[1] \in {"ok", "err"}
    /\ resp[1].err # NoError => sOut[1] = "err" /\ IsNetworkError(sErr[1], 1)
    /\ AddressCallSucceeded <=> sOut[1] = "ok"
    /\ sOut[1] = "ok" => sVal[1] = JSONparse(resp[1].body).obj.ip
    /\ (resp[1].err = NoError /\ ~AddressCallSucceeded) =>
         sOut[1] = "err" /\ IsResponseError(sErr[1])

\* C9: fetchISSFlyOverTimes fails with a ValidationError only when the body
\* is the invalid-coordinates marker, with a ResponseError on another
\* status, and with the NetworkError on a transport failure.
C9_ValidationErrorOnlyForMarker ==
  (impl = "callback" /\ resp[3].recv /\ sOut[3] = "err") =>
    /\ IsValidationError(sErr[3]) => resp[3].body = BodyInvalidCoordinates
    /\ (resp[3].err = NoError /\ resp[3].status # 200
        /\ resp[3].body # BodyInvalidCoordinates) => IsResponseError(sErr[3])
    /\ resp[3].err # NoError => IsNetworkError(sErr[3], 3)

\* C10: a run never stops without an outcome: once no request is
\* outstanding, the callback has been invoked or the promise has settled.
C10_OutcomeDelivered == Stopped => Delivered
====
